---- MODULE Spec2Model ----
(***************************************************************************)
(* Model of src/simulator.py, class Lotto: the fields of one Lotto         *)
(* instance, the random draw (_draw), the scoring and prize resolution of  *)
(* one play and the accumulation of plays by run(), the per-play profit    *)
(* series (_calc_profit) and the table of results (_get_df).               *)
(*                                                                         *)
(* Python values are modelled as follows: a list or tuple is a sequence,   *)
(* a dict is a function on its keys, an int is an Int (Python ints do not  *)
(* overflow).  random.sample is modelled by the relation "s is a possible  *)
(* result of random.sample(population, k)"; an action picks the results    *)
(* of its draws among a bounded set of candidate outcomes.                 *)
(***************************************************************************)
EXTENDS Integers, Sequences, FiniteSets, TLC

VARIABLES
    plays,              \* self.plays
    spent,              \* self.spent
    winnings,           \* self.winnings
    net_profit,         \* self.net_profit
    chosen_ball1,       \* self.chosen_ball1
    chosen_ball2,       \* self.chosen_ball2
    chosen_ball3,       \* self.chosen_ball3
    chosen_ball4,       \* self.chosen_ball4
    chosen_ball5,       \* self.chosen_ball5
    chosen_powerball,   \* self.chosen_powerball
    chosen_powerplay,   \* self.chosen_powerplay
    call,               \* history: the last call of run (arguments, draws, fields before it)
    requested,          \* history: sum of max(num_plays, 0) over all calls of run
    fn                  \* one application of _multiply_powerplay: arguments and result

vars ==
    <<plays, spent, winnings, net_profit, chosen_ball1, chosen_ball2, chosen_ball3,
      chosen_ball4, chosen_ball5, chosen_powerball, chosen_powerplay, call, requested, fn>>

(***************************************************************************)
(* Bounds of the model.                                                    *)
(***************************************************************************)
\* Spec stops calling run once this many plays are recorded on the instance.
MaxPlays == 2
\* The candidate main-ball outcomes of SpecPlay are the windows k+1 .. k+5, k in 0 .. MaxShift.
MaxShift == 5
\* The candidate power balls of a draw are 1 .. MaxPowerball (of the pool 1 .. 26).
MaxPowerball == 2

\* random.sample(self._balls, 5): the number of main balls of one draw.
NumPicked == 5

(***************************************************************************)
(* Helpers for Python values.                                              *)
(***************************************************************************)
Range(s) == {s[i] : i \in DOMAIN s}

Max(a, b) == IF a >= b THEN a ELSE b

\* A value of the prize table is an int or a str; == on values of different
\* types is False in Python.
PyInt(n) == [type |-> "int", value |-> n]
PyStr(s) == [type |-> "str", value |-> s]
PyEq(a, b) == a.type = b.type /\ a.value = b.value

RECURSIVE SumTo(_, _)
SumTo(s, n) == IF n = 0 THEN 0 ELSE SumTo(s, n - 1) + s[n]
\* np.sum / sum of a list
Sum(s) == SumTo(s, Len(s))

\* Mutant of range: the bound is included, so range(0) has one element.
range_inclusive(n) == 0 .. n

\* range(n) of Python: 0, 1, ..., n - 1, empty when n <= 0
range(n) == 0 .. (n - 1)

(***************************************************************************)
(* Lotto.__init__: the pools, the prize table.                             *)
(***************************************************************************)
_balls == [i \in 1 .. 69 |-> i]
_powerball == [i \in 1 .. 26 |-> i]
_powerplays == <<2, 3, 4, 5, 10>>

\* Mutant of _prizes: the prize of '2 + powerball' is 4 and not 7.
_prizes_typo ==
    ("0 + powerball" :> PyInt(4)) @@
    ("1 + powerball" :> PyInt(4)) @@
    ("2 + powerball" :> PyInt(4)) @@
    ("3 + no powerball" :> PyInt(7)) @@
    ("3 + powerball" :> PyInt(100)) @@
    ("4 + no powerball" :> PyInt(100)) @@
    ("4 + powerball" :> PyInt(50000)) @@
    ("5 + no powerball" :> PyInt(1000000)) @@
    ("5 + powerball" :> PyStr("jackpot"))

_prizes ==
    ("0 + powerball" :> PyInt(4)) @@
    ("1 + powerball" :> PyInt(4)) @@
    ("2 + powerball" :> PyInt(7)) @@
    ("3 + no powerball" :> PyInt(7)) @@
    ("3 + powerball" :> PyInt(100)) @@
    ("4 + no powerball" :> PyInt(100)) @@
    ("4 + powerball" :> PyInt(50000)) @@
    ("5 + no powerball" :> PyInt(1000000)) @@
    ("5 + powerball" :> PyStr("jackpot"))

\* The fields of the instance, as one record.
Self ==
    [plays |-> plays, spent |-> spent, winnings |-> winnings, net_profit |-> net_profit,
     chosen_ball1 |-> chosen_ball1, chosen_ball2 |-> chosen_ball2,
     chosen_ball3 |-> chosen_ball3, chosen_ball4 |-> chosen_ball4,
     chosen_ball5 |-> chosen_ball5, chosen_powerball |-> chosen_powerball,
     chosen_powerplay |-> chosen_powerplay]

\* The fields after __init__.
Fresh ==
    [plays |-> 0, spent |-> <<>>, winnings |-> <<>>, net_profit |-> 0,
     chosen_ball1 |-> <<>>, chosen_ball2 |-> <<>>, chosen_ball3 |-> <<>>,
     chosen_ball4 |-> <<>>, chosen_ball5 |-> <<>>, chosen_powerball |-> <<>>,
     chosen_powerplay |-> <<>>]

(***************************************************************************)
(* Lotto._multiply_powerplay                                               *)
(***************************************************************************)
\* Mutant of _multiply_powerplay: the cap starts above 1,000,000 and not at it.
_multiply_powerplay_above(w, powerplay) ==
    IF powerplay > 0
    THEN IF w <= 1000000 THEN w * powerplay ELSE 2000000
    ELSE w

_multiply_powerplay(w, powerplay) ==
    IF powerplay > 0
    THEN IF w < 1000000 THEN w * powerplay ELSE 2000000
    ELSE w

(***************************************************************************)
(* Lotto._calc_profit: element-wise np.negative(self.spent) + self.winnings *)
(***************************************************************************)
_calc_profit(st) == [i \in 1 .. Len(st.spent) |-> (0 - st.spent[i]) + st.winnings[i]]

(***************************************************************************)
(* Lotto._draw                                                             *)
(***************************************************************************)
\* s is a possible result of random.sample(population, k): k elements taken
\* at k different positions of the population, in the order they were
\* taken.  The populations of this program hold no value twice, so
\* different positions are different values.
\* Mutant of sample: a selection with replacement (random.choices).
choices(population, k, s) ==
    /\ Len(s) = k
    /\ \A i \in 1 .. k : s[i] \in Range(population)

sample(population, k, s) ==
    /\ Len(s) = k
    /\ \A i \in 1 .. k : s[i] \in Range(population)
    /\ \A i \in 1 .. k : \A j \in 1 .. k : i # j => s[i] # s[j]

\* Mutant of _draw: the x10 power play is offered below the threshold, as
\* the comments of _draw say, and not from it on.
_draw_below(jackpot, d) ==
    /\ sample(_balls, NumPicked, d[1])
    /\ sample(_powerball, 1, d[2])
    /\ IF jackpot < 150000000
       THEN sample(_powerplays, 1, d[3])
       ELSE sample(<<2, 3, 4, 5>>, 1, d[3])

\* d = <<balls, powerball, powerplay>> is a possible result of self._draw(jackpot).
_draw(jackpot, d) ==
    /\ sample(_balls, NumPicked, d[1])
    /\ sample(_powerball, 1, d[2])
    /\ IF jackpot >= 150000000
       THEN sample(_powerplays, 1, d[3])
       ELSE sample(<<2, 3, 4, 5>>, 1, d[3])

(***************************************************************************)
(* Lotto.run                                                               *)
(***************************************************************************)
\* Mutant of Cost: the two prices exchanged.
CostExchanged(add_powerplay) == IF add_powerplay THEN 2 ELSE 3

\* spent = 2 if not add_powerplay else 3
Cost(add_powerplay) == IF ~add_powerplay THEN 2 ELSE 3

\* len([i for i in ticket_balls if i in chosen_balls])
MatchedBalls(ticket_balls, chosen_balls) ==
    Cardinality({i \in DOMAIN ticket_balls : ticket_balls[i] \in Range(chosen_balls)})

\* 'powerball' if ticket_powerball == chosen_powerball else 'no powerball'
MatchedPowerball(ticket_powerball, chosen_pb) ==
    IF ticket_powerball = chosen_pb THEN "powerball" ELSE "no powerball"

\* f'{matched_balls} + {matched_powerball}'
PrizeKey(matched_balls, matched_powerball) ==
    ToString(matched_balls) \o " + " \o matched_powerball

\* try: self._prizes[key]  except KeyError: 0
PrizeLookup(key) == IF key \in DOMAIN _prizes THEN _prizes[key] ELSE PyInt(0)

\* Mutant of Resolve: the power play multiplies the jackpot too.
ResolveMultipliesJackpot(prize, jackpot, add_powerplay, powerplay) ==
    LET base == IF PyEq(prize, PyStr("jackpot")) THEN jackpot ELSE prize.value
    IN  IF add_powerplay THEN _multiply_powerplay(base, powerplay[1]) ELSE base

\* The winnings of one play: the looked-up prize, the jackpot for the
\* 'jackpot' entry, the multiplied prize when the power play was added.
Resolve(prize, jackpot, add_powerplay, powerplay) ==
    IF PyEq(prize, PyStr("jackpot"))
    THEN jackpot
    ELSE IF add_powerplay
         THEN _multiply_powerplay(prize.value, powerplay[1])
         ELSE prize.value

\* Mutant of Play: the power play of the ticket's draw is recorded, and the
\* balls of the winning draw.
PlayRecordsOther(st, jackpot, add_powerplay, ticket, chosen) ==
    LET key == PrizeKey(MatchedBalls(ticket[1], chosen[1]),
                        MatchedPowerball(ticket[2], chosen[2]))
    IN  [st EXCEPT
            !.plays = @ + 1,
            !.spent = Append(@, Cost(add_powerplay)),
            !.chosen_ball1 = Append(@, chosen[1][1]),
            !.chosen_ball2 = Append(@, chosen[1][2]),
            !.chosen_ball3 = Append(@, chosen[1][3]),
            !.chosen_ball4 = Append(@, chosen[1][4]),
            !.chosen_ball5 = Append(@, chosen[1][5]),
            !.chosen_powerball = Append(@, ticket[2][1]),
            !.chosen_powerplay = Append(@, ticket[3][1]),
            !.winnings = Append(@, Resolve(PrizeLookup(key), jackpot, add_powerplay, chosen[3]))]

\* One iteration of the loop of run, with the results of its two calls of _draw.
Play(st, jackpot, add_powerplay, ticket, chosen) ==
    LET ticket_balls == ticket[1]
        ticket_powerball == ticket[2]
        chosen_balls == chosen[1]
        chosen_pb == chosen[2]
        powerplay == chosen[3]
        key == PrizeKey(MatchedBalls(ticket_balls, chosen_balls),
                        MatchedPowerball(ticket_powerball, chosen_pb))
    IN  [st EXCEPT
            !.plays = @ + 1,
            !.spent = Append(@, Cost(add_powerplay)),
            !.chosen_ball1 = Append(@, ticket_balls[1]),
            !.chosen_ball2 = Append(@, ticket_balls[2]),
            !.chosen_ball3 = Append(@, ticket_balls[3]),
            !.chosen_ball4 = Append(@, ticket_balls[4]),
            !.chosen_ball5 = Append(@, ticket_balls[5]),
            !.chosen_powerball = Append(@, ticket_powerball[1]),
            !.chosen_powerplay = Append(@, powerplay[1]),
            !.winnings = Append(@, Resolve(PrizeLookup(key), jackpot, add_powerplay, powerplay))]

\* Mutant of Loop: the last iteration is left out.
RECURSIVE LoopShort(_, _, _, _, _)
LoopShort(st, jackpot, add_powerplay, draws, i) ==
    IF i >= Len(draws)
    THEN st
    ELSE LoopShort(Play(st, jackpot, add_powerplay, draws[i][1], draws[i][2]),
                   jackpot, add_powerplay, draws, i + 1)

\* The loop of run over the iterations i .. Len(draws).
RECURSIVE Loop(_, _, _, _, _)
Loop(st, jackpot, add_powerplay, draws, i) ==
    IF i > Len(draws)
    THEN st
    ELSE Loop(Play(st, jackpot, add_powerplay, draws[i][1], draws[i][2]),
              jackpot, add_powerplay, draws, i + 1)

\* run(jackpot, add_powerplay, num_plays), its draws taken among Candidates.
\* _draw is called twice in each iteration, and not at all when there is none.
Run(jackpot, add_powerplay, num_plays, Candidates) ==
    LET iterations == Cardinality(range(num_plays))
        possible == IF iterations = 0 THEN {} ELSE {d \in Candidates : _draw(jackpot, d)}
    IN  \E draws \in [1 .. iterations -> possible \X possible] :
        \E st \in {Loop(Self, jackpot, add_powerplay, draws, 1)} :
                /\ plays' = st.plays
                /\ spent' = st.spent
                /\ winnings' = st.winnings
                /\ chosen_ball1' = st.chosen_ball1
                /\ chosen_ball2' = st.chosen_ball2
                /\ chosen_ball3' = st.chosen_ball3
                /\ chosen_ball4' = st.chosen_ball4
                /\ chosen_ball5' = st.chosen_ball5
                /\ chosen_powerball' = st.chosen_powerball
                /\ chosen_powerplay' = st.chosen_powerplay
                /\ net_profit' = Sum(_calc_profit(st))
                /\ call' = [made |-> TRUE, jackpot |-> jackpot, add_powerplay |-> add_powerplay,
                            num_plays |-> num_plays, draws |-> draws, before |-> Self]
                /\ requested' = requested + Max(num_plays, 0)
                /\ UNCHANGED fn

(***************************************************************************)
(* Lotto._get_df: the columns of the table; pandas refuses columns of      *)
(* different lengths.                                                      *)
(***************************************************************************)
TicketNumber(st) == [i \in 1 .. st.plays |-> i]

_get_df(st) ==
    <<TicketNumber(st), st.spent, st.winnings, st.chosen_ball1, st.chosen_ball2,
      st.chosen_ball3, st.chosen_ball4, st.chosen_ball5, st.chosen_powerball,
      st.chosen_powerplay>>

(***************************************************************************)
(* Candidate outcomes of a draw.                                           *)
(***************************************************************************)
\* The balls k+1 .. k+5 in the order of a selection that is not sorted.
Window(k) == [i \in 1 .. NumPicked |-> k + 1 + ((i - 1 + k) % NumPicked)]

\* Five balls with one value taken twice: no result of a sample without replacement.
Repeated(k) == [Window(k) EXCEPT ![2] = Window(k)[1]]

Outcomes(shifts, powerballs, powerplays) ==
    {<<b, <<p>>, <<m>>>> :
        b \in {Window(k) : k \in shifts} \cup {Repeated(k) : k \in shifts},
        p \in powerballs, m \in powerplays}

WideOutcomes == Outcomes(0 .. MaxShift, 1 .. MaxPowerball, {2, 3, 4, 5, 10})

NarrowOutcomes == Outcomes({0, 3}, {1}, {3})

Jackpots == {0, 149999999, 150000000}

NoCall ==
    [made |-> FALSE, jackpot |-> 0, add_powerplay |-> FALSE, num_plays |-> 0,
     draws |-> <<>>, before |-> Fresh]

NoFn == [winnings |-> 0, powerplay |-> 0, result |-> <<>>]

(***************************************************************************)
(* Spec: one instance, any sequence of calls of run.                       *)
(***************************************************************************)
Init ==
    /\ plays = 0
    /\ spent = <<>>
    /\ winnings = <<>>
    /\ net_profit = 0
    /\ chosen_ball1 = <<>>
    /\ chosen_ball2 = <<>>
    /\ chosen_ball3 = <<>>
    /\ chosen_ball4 = <<>>
    /\ chosen_ball5 = <<>>
    /\ chosen_powerball = <<>>
    /\ chosen_powerplay = <<>>
    /\ call = NoCall
    /\ requested = 0
    /\ fn = NoFn

RunAny ==
    \E jackpot \in {0, 250000000}, add_powerplay \in BOOLEAN, num_plays \in -1 .. MaxPlays :
        /\ plays + Max(num_plays, 0) <= MaxPlays
        /\ Run(jackpot, add_powerplay, num_plays, NarrowOutcomes)

Next == RunAny

Spec == Init /\ [][Next]_vars

(***************************************************************************)
(* SpecPlay: the first play of an instance, over the wide candidates.      *)
(***************************************************************************)
RunOnce ==
    \E jackpot \in Jackpots, add_powerplay \in BOOLEAN, num_plays \in -1 .. 1 :
        /\ plays = 0
        /\ Run(jackpot, add_powerplay, num_plays, WideOutcomes)

NextPlay == RunOnce

SpecPlay == Init /\ [][NextPlay]_vars

(***************************************************************************)
(* SpecFn: _multiply_powerplay applied to arguments drawn at the start.    *)
(***************************************************************************)
WinningsInputs == {0, 4, 7, 100, 50000, 999999, 1000000, 1000001, 2000000, 250000000}

PowerplayInputs == -1 .. 10

InitFn ==
    /\ plays = 0
    /\ spent = <<>>
    /\ winnings = <<>>
    /\ net_profit = 0
    /\ chosen_ball1 = <<>>
    /\ chosen_ball2 = <<>>
    /\ chosen_ball3 = <<>>
    /\ chosen_ball4 = <<>>
    /\ chosen_ball5 = <<>>
    /\ chosen_powerball = <<>>
    /\ chosen_powerplay = <<>>
    /\ call = NoCall
    /\ requested = 0
    /\ fn \in [winnings : WinningsInputs, powerplay : PowerplayInputs, result : {<<>>}]

Multiply ==
    /\ fn.result = <<>>
    /\ fn' = [fn EXCEPT !.result = <<_multiply_powerplay(fn.winnings, fn.powerplay)>>]
    /\ UNCHANGED <<plays, spent, winnings, net_profit, chosen_ball1, chosen_ball2,
                   chosen_ball3, chosen_ball4, chosen_ball5, chosen_powerball,
                   chosen_powerplay, call, requested>>

NextFn == Multiply

SpecFn == InitFn /\ [][NextFn]_vars

(***************************************************************************)
(* Properties.  The plays of the last call of run are numbered             *)
(* 1 .. Len(call.draws); play i of the call is record Rec(i) of the        *)
(* instance, made from the ticket draw Ticket(i) and the winning draw      *)
(* Chosen(i).                                                              *)
(***************************************************************************)
CallPlays == 1 .. Len(call.draws)
Rec(i) == call.before.plays + i
Ticket(i) == call.draws[i][1]
Chosen(i) == call.draws[i][2]

\* Size of the intersection of the two draws' main balls, as sets.
MatchCount(i) == Cardinality(Range(Ticket(i)[1]) \cap Range(Chosen(i)[1]))
\* The ticket's power ball is the winning power ball.
PowerMatched(i) == Ticket(i)[2][1] = Chosen(i)[2][1]

\* The payout table of the specification.
PayoutTable(m, pm, J) ==
    CASE m = 0 /\ pm -> 4
      [] m = 1 /\ pm -> 4
      [] m = 2 /\ pm -> 7
      [] m = 3 /\ ~pm -> 7
      [] m = 3 /\ pm -> 100
      [] m = 4 /\ ~pm -> 100
      [] m = 4 /\ pm -> 50000
      [] m = 5 /\ ~pm -> 1000000
      [] m = 5 /\ pm -> J
      [] OTHER -> 0

Series ==
    <<spent, winnings, chosen_ball1, chosen_ball2, chosen_ball3, chosen_ball4,
      chosen_ball5, chosen_powerball, chosen_powerplay>>

SeriesOf(st) ==
    <<st.spent, st.winnings, st.chosen_ball1, st.chosen_ball2, st.chosen_ball3,
      st.chosen_ball4, st.chosen_ball5, st.chosen_powerball, st.chosen_powerplay>>

\* C1: with the multiplier option disabled, the recorded winnings of every
\* play are the payout-table entry of (matchCount, powerMatched): 4, 4, 7, 7,
\* 100, 100, 50,000, 1,000,000, the jackpot; 0 for every other combination.
C1_PayoutTable ==
    \A i \in CallPlays :
        ~call.add_powerplay =>
            /\ Rec(i) \in DOMAIN winnings
            /\ winnings[Rec(i)] = PayoutTable(MatchCount(i), PowerMatched(i), call.jackpot)

\* A play without the multiplier option that matches 2 main balls and not the
\* power ball, a combination the table does not hold, has won 0.
C1_Witness ==
    /\ call.made /\ ~call.add_powerplay /\ plays = 1 /\ Len(call.draws) = 1
    /\ MatchCount(1) = 2 /\ ~PowerMatched(1)
    /\ winnings = <<0>>

\* C2: a play that matches all 5 main balls and the power ball wins exactly
\* the jackpot argument, with the multiplier option enabled or disabled and
\* for every multiplier drawn.
C2_JackpotVerbatim ==
    \A i \in CallPlays :
        (MatchCount(i) = 5 /\ PowerMatched(i)) =>
            /\ Rec(i) \in DOMAIN winnings
            /\ winnings[Rec(i)] = call.jackpot

\* A full match with the multiplier option enabled, a jackpot the multiplier
\* would change and the multiplier 5 drawn.
C2_Witness ==
    /\ call.made /\ call.add_powerplay /\ call.jackpot = 149999999
    /\ Len(call.draws) = 1 /\ MatchCount(1) = 5 /\ PowerMatched(1)
    /\ Chosen(1)[3] = <<5>>
    /\ winnings = <<149999999>>

\* C3: _multiply_powerplay(w, m) is w when m <= 0, w * m when m > 0 and
\* w < 1,000,000, and 2,000,000 when m > 0 and w >= 1,000,000; so
\* (1,000,000, m) gives 2,000,000 for m in {2,3,4,5,10}, (1,000,000, 0) gives
\* 1,000,000, (100, 3) gives 300 and (100, 0) gives 100.
C3_MultiplyPowerplay ==
    fn.result # <<>> =>
        LET w == fn.winnings
            m == fn.powerplay
            r == fn.result[1]
        IN  /\ m <= 0 => r = w
            /\ (m > 0 /\ w < 1000000) => r = w * m
            /\ (m > 0 /\ w >= 1000000) => r = 2000000
            /\ (w = 1000000 /\ m \in {2, 3, 4, 5, 10}) => r = 2000000
            /\ (w = 1000000 /\ m = 0) => r = 1000000
            /\ (w = 100 /\ m = 3) => r = 300
            /\ (w = 100 /\ m = 0) => r = 100

\* The 1,000,000 prize with the multiplier 10 has given 2,000,000.
C3_Witness == fn = [winnings |-> 1000000, powerplay |-> 10, result |-> <<2000000>>]

C5_AppendOnly ==
    /\ plays = requested
    /\ \A c \in DOMAIN Series : Len(Series[c]) = plays
    /\ \A c \in DOMAIN _get_df(Self) : Len(_get_df(Self)[c]) = plays
    /\ \A i \in 1 .. plays : _get_df(Self)[1][i] = i
    /\ call.made =>
        /\ plays = call.before.plays + Max(call.num_plays, 0)
        /\ \A c \in DOMAIN Series :
            /\ Len(Series[c]) >= call.before.plays
            /\ SubSeq(Series[c], 1, call.before.plays) = SeriesOf(call.before)[c]

\* A second call of run has added one play to an instance that had one.
C5_Witness ==
    /\ call.made /\ call.before.plays = 1 /\ call.num_plays = 1
    /\ plays = 2 /\ Len(winnings) = 2

\* C6: the sequence _calc_profit returns has the length of the play count,
\* its element i is the sum of the winnings of plays 1 .. i minus the sum of
\* the spend of plays 1 .. i, and its last element is the total winnings
\* minus the total spend.
C6_CumulativeProfit ==
    LET profit == _calc_profit(Self)
    IN  /\ Len(profit) = plays
        /\ \A i \in 1 .. Len(profit) :
            profit[i] = SumTo(winnings, i) - SumTo(spent, i)
        /\ plays > 0 => profit[plays] = Sum(winnings) - Sum(spent)

\* C7: every play of a call of run has spend 3 when the call's multiplier
\* option is enabled and 2 otherwise, whatever the jackpot, the draws and the
\* prize; no play has another spend.
C7_FlatCost ==
    /\ \A k \in DOMAIN spent : spent[k] \in {2, 3}
    /\ \A i \in CallPlays :
        /\ Rec(i) \in DOMAIN spent
        /\ spent[Rec(i)] = IF call.add_powerplay THEN 3 ELSE 2

\* A play without the option at 2 followed by a winning play with it at 3.
C7_Witness ==
    /\ call.made /\ call.add_powerplay /\ call.jackpot = 250000000
    /\ spent = <<2, 3>>
    /\ winnings[2] = 250000000

\* C8: a call of run with num_plays <= 0 performs no play: it leaves the
\* play counter and every series as they were, which is zero plays and empty
\* series on a fresh instance.
C8_NonPositivePlays ==
    (call.made /\ call.num_plays <= 0) =>
        /\ plays = call.before.plays
        /\ Series = SeriesOf(call.before)
        /\ call.before = Fresh => (plays = 0 /\ \A c \in DOMAIN Series : Series[c] = <<>>)

\* run(num_plays = -1) has returned on an instance that holds one play.
C8_Witness ==
    /\ call.made /\ call.num_plays = -1
    /\ call.before.plays = 1 /\ plays = 1 /\ Len(spent) = 1

\* C9: the match count run computes is between 0 and 5 and is the size of
\* the intersection of the two draws' main balls, each draw holding 5
\* pairwise distinct values of 1 .. 69; the power ball counts as matched
\* exactly when the two power balls are equal.
C9_MatchCount ==
    \A i \in CallPlays :
        /\ MatchedBalls(Ticket(i)[1], Chosen(i)[1]) \in 0 .. 5
        /\ MatchedBalls(Ticket(i)[1], Chosen(i)[1]) = MatchCount(i)
        /\ \A d \in {Ticket(i), Chosen(i)} :
            /\ Len(d[1]) = 5
            /\ Cardinality(Range(d[1])) = 5
            /\ Range(d[1]) \subseteq 1 .. 69
        /\ (MatchedPowerball(Ticket(i)[2], Chosen(i)[2]) = "powerball") <=> PowerMatched(i)

\* Two draws with 3 common main balls, drawn in different orders, and the
\* same power ball: the play has won the prize of '3 + powerball'.
C9_Witness ==
    /\ call.made /\ ~call.add_powerplay /\ Len(call.draws) = 1
    /\ MatchCount(1) = 3 /\ PowerMatched(1)
    /\ winnings = <<100>>

\* C10: the record of a play holds the ticket's 5 main balls and power ball
\* and the winning draw's multiplier, also when the multiplier option is
\* disabled; with the option enabled the winnings of a play that is not a
\* full match are _multiply_powerplay(base payout, recorded multiplier).
C10_Record ==
    \A i \in CallPlays :
        /\ \A c \in DOMAIN Series : Rec(i) \in DOMAIN Series[c]
        /\ <<chosen_ball1[Rec(i)], chosen_ball2[Rec(i)], chosen_ball3[Rec(i)],
             chosen_ball4[Rec(i)], chosen_ball5[Rec(i)]>> = Ticket(i)[1]
        /\ chosen_powerball[Rec(i)] = Ticket(i)[2][1]
        /\ chosen_powerplay[Rec(i)] = Chosen(i)[3][1]
        /\ (call.add_powerplay /\ ~(MatchCount(i) = 5 /\ PowerMatched(i))) =>
            winnings[Rec(i)] =
                _multiply_powerplay(PayoutTable(MatchCount(i), PowerMatched(i), call.jackpot),
                                    chosen_powerplay[Rec(i)])

\* With the option disabled, a play whose two draws differ in every part has
\* recorded the ticket's balls and power ball and the winning multiplier 10.
C10_Witness ==
    /\ call.made /\ ~call.add_powerplay /\ Len(call.draws) = 1
    /\ Ticket(1)[1] # Chosen(1)[1] /\ ~PowerMatched(1)
    /\ Ticket(1)[3] = <<2>> /\ Chosen(1)[3] = <<10>>
    /\ chosen_powerplay = <<10>>
    /\ chosen_ball1 = <<Ticket(1)[1][1]>> /\ chosen_powerball = <<Ticket(1)[2][1]>>

====
